---- MODULE Spec2Model ----
(***************************************************************************)
(* Permit Lead Finder (app_autofilter.py): a Streamlit script that is run  *)
(* top to bottom for an uploaded permit report.  The model follows the     *)
(* script's stages: upload, read_any, county tag, column mapping, helper   *)
(* columns (_exp_dt, _months_remaining, _is_roofing), leads mask, roofing  *)
(* summary, downloads.  The pure helpers (months_remaining, has_roof,      *)
(* guess) are operators, exercised by the script model and by three small  *)
(* drivers that feed them bounded inputs.                                  *)
(***************************************************************************)
EXTENDS Integers, Sequences, FiniteSets, TLC

VARIABLES
    folder,      \* which set of files the user uploads from
    pc,          \* position of the script run
    uploaded,    \* st.file_uploader value: NoFile or a file
    county,      \* st.selectbox "Select County for this file"
    today,       \* pd.Timestamp.today().normalize()
    df,          \* the ingested, county-tagged table
    colmap,      \* col_desc, col_type, col_status, col_contr selections
    work,        \* df plus _issue_dt, _exp_dt, _months_remaining, _is_roofing
    cfg,         \* max_months, pick_status, exclude_roof
    leads,       \* work.loc[mask]
    range,       \* st.date_input "Date pulled range": start, end
    top_con,     \* the ranked contractor table
    top_view,    \* top_con.head(20), the table on the page
    failed,      \* the export backends that raise in this run
    shown,       \* what the page shows: messages, tables, download buttons
    k,           \* months driver: the number of calendar months asked for
    which,       \* months driver: "at" the boundary or the day "before"
    expd,        \* months driver: the expiration date fed to months_remaining
    mr,          \* months driver: months_remaining's result
    cellDesc,    \* roofing driver: the Description cell being typed
    cellType,    \* roofing driver: the Permit Type cell
    roofMap,     \* roofing driver: which of col_desc / col_type are mapped
    flag,        \* roofing driver: the row's _is_roofing
    cols,        \* guess driver: df.columns.tolist()
    sugg         \* guess driver: field -> suggested selectbox option

vars == <<folder, pc, uploaded, county, today, df, colmap, work, cfg, leads,
          range, top_con, top_view, failed, shown, k, which, expd, mr, cellDesc, cellType, roofMap,
          flag, cols, sugg>>

scriptVars == <<uploaded, county, df, colmap, work, cfg, leads, range, top_con,
               top_view, failed, shown>>
monthVars  == <<k, which, expd, mr>>
roofVars   == <<cellDesc, cellType, roofMap, flag>>
guessVars  == <<cols, sugg>>

(***************************************************************************)
(* Bounds of the model                                                     *)
(***************************************************************************)
MaxRows   == 2     \* rows of an uploaded CSV/XLSX table
MaxTables == 2     \* tables extracted from an uploaded PDF
MaxK      == 13    \* |k| of the months driver
TodayYear == 2024  \* the year today lies in
MaxLen    == 5     \* characters of a typed cell in the roofing driver
MaxCols   == 3     \* source headers in the guess driver
NContr    == 22    \* distinct contractor names

(***************************************************************************)
(* Program constants                                                       *)
(***************************************************************************)
DEFAULT_MAX_MONTHS == 4
MAX_MONTHS_LIMIT   == 60
TOP_N              == 20

DEFAULT_STATUSES == <<"Issued", "In Progress">>

ROOF_KEYWORDS ==
    << <<"r","o","o","f">>,
       <<"r","e","-","r","o","o","f">>,
       <<"r","e","r","o","o","f">>,
       <<"r","e"," ","r","o","o","f">>,
       <<"r","o","o","f"," ","r","e","p","l">>,
       <<"r","o","o","f"," ","m","o","u","n","t">> >>

COUNTY_OPTIONS == <<"Placer", "El Dorado", "Nevada", "Yuba", "Other">>

NONE == <<"(","n","o","n","e",")">>

(***************************************************************************)
(* Values: text is a sequence of characters; NaN / NaT are pandas' missing *)
(* number and missing timestamp.                                           *)
(***************************************************************************)
NaN      == [nan |-> TRUE,  v |-> 0]
Num(n)   == [nan |-> FALSE, v |-> n]
NaT      == [nat |-> TRUE,  y |-> 0, m |-> 0, d |-> 0]
Ts(y, m, d) == [nat |-> FALSE, y |-> y, m |-> m, d |-> d]

\* a cell of a date column: a text that parses to the date, a text that
\* does not parse, or an empty cell
DateCell(y, m, d) == [t |-> "date", y |-> y, m |-> m, d |-> d]
BadDateCell       == [t |-> "text", y |-> 0, m |-> 0, d |-> 0]
EmptyDateCell     == [t |-> "nan",  y |-> 0, m |-> 0, d |-> 0]

\* a cell of a text column: a text or an empty cell (NaN)
TextCell(s) == [nan |-> FALSE, s |-> s]
EmptyCell   == [nan |-> TRUE,  s |-> <<>>]

\* NaN arithmetic and comparison as numpy does them
NAdd(a, b) == IF a.nan \/ b.nan THEN NaN ELSE Num(a.v + b.v)
NSub(a, b) == IF a.nan \/ b.nan THEN NaN ELSE Num(a.v - b.v)
NMul(a, n) == IF a.nan THEN NaN ELSE Num(a.v * n)
NLt(a, b)  == ~a.nan /\ ~b.nan /\ a.v < b.v
NLe(a, b)  == ~a.nan /\ ~b.nan /\ a.v <= b.v

(***************************************************************************)
(* Python str: lower() and the substring test `needle in s`                *)
(***************************************************************************)
ToLower ==
    [A |-> "a", B |-> "b", C |-> "c", D |-> "d", E |-> "e", F |-> "f", G |-> "g",
     H |-> "h", I |-> "i", J |-> "j", K |-> "k", L |-> "l", M |-> "m", N |-> "n",
     O |-> "o", P |-> "p", Q |-> "q", R |-> "r", S |-> "s", T |-> "t", U |-> "u",
     V |-> "v", W |-> "w", X |-> "x", Y |-> "y", Z |-> "z"]

LowerChar(c) == IF c \in DOMAIN ToLower THEN ToLower[c] ELSE c

lower(s) == [i \in 1..Len(s) |-> LowerChar(s[i])]

In(needle, s) ==
    \E i \in 1..(Len(s) - Len(needle) + 1) :
        SubSeq(s, i, i + Len(needle) - 1) = needle

\* str(x) of a cell value: an empty cell is the float nan
str(x) == IF x.nan THEN <<"n","a","n">> ELSE x.s

(***************************************************************************)
(* to_dt and months_remaining (lines 80-91)                                *)
(***************************************************************************)
to_dt(c) == IF c.t = "date" THEN Ts(c.y, c.m, c.d) ELSE NaT

dt_year(e)  == IF e.nat THEN NaN ELSE Num(e.y)
dt_month(e) == IF e.nat THEN NaN ELSE Num(e.m)
dt_day(e)   == IF e.nat THEN NaN ELSE Num(e.d)

\* same without the day-of-month adjustment
months_remaining_noadj(exp, tdy) ==
    NAdd(NMul(NSub(dt_year(exp), Num(tdy.y)), 12),
         NSub(dt_month(exp), Num(tdy.m)))

\* same with missing dates counted as expiring today: fillna(0)
months_remaining_fillna(exp, tdy) ==
    IF exp.nat THEN Num(0) ELSE months_remaining_noadj(exp, tdy)

months_remaining(exp, tdy) ==
    LET m   == NAdd(NMul(NSub(dt_year(exp), Num(tdy.y)), 12),
                    NSub(dt_month(exp), Num(tdy.m)))
        adj == IF NLt(dt_day(exp), Num(tdy.d)) THEN 1 ELSE 0
    IN  NSub(m, Num(adj))

(***************************************************************************)
(* has_roof and the roofing flag (lines 93-101)                            *)
(***************************************************************************)
has_roof_cased(x) ==
    \E i \in 1..Len(ROOF_KEYWORDS) : In(ROOF_KEYWORDS[i], str(x))

has_roof(x) ==
    LET s == lower(str(x))
    IN  \E i \in 1..Len(ROOF_KEYWORDS) : In(ROOF_KEYWORDS[i], s)

\* work["_is_roofing"] of one row: False, then |= per mapped column
is_roofing(descMapped, typeMapped, desc, ptype) ==
    \/ (descMapped /\ has_roof(desc))
    \/ (typeMapped /\ has_roof(ptype))

(***************************************************************************)
(* guess and the selectbox defaults (lines 62-77)                          *)
(***************************************************************************)
\* the set of 0-based positions whose lowercased header contains the needle
Hits(cs, needle) == {i \in 0..(Len(cs) - 1) : In(needle, lower(cs[i + 1]))}

Least(S) == CHOOSE i \in S : \A j \in S : i <= j

guess(cs, needle) ==
    IF Hits(cs, needle) = {} THEN 0 ELSE Least(Hits(cs, needle))

\* field -> [needle, optional]: optional fields get "(none)" as option 0
FIELDS ==
    [issue    |-> [needle |-> <<"i","s","s","u","e">>,             optional |-> FALSE],
     exp      |-> [needle |-> <<"e","x","p">>,                     optional |-> FALSE],
     desc     |-> [needle |-> <<"d","e","s","c">>,                 optional |-> TRUE],
     type     |-> [needle |-> <<"t","y","p","e">>,                 optional |-> TRUE],
     status   |-> [needle |-> <<"s","t","a","t","u","s">>,         optional |-> TRUE],
     contract |-> [needle |-> <<"c","o","n","t","r","a","c","t">>, optional |-> TRUE],
     address  |-> [needle |-> <<"a","d","d","r","e","s","s">>,     optional |-> TRUE],
     city     |-> [needle |-> <<"c","i","t","y">>,                 optional |-> TRUE],
     zip      |-> [needle |-> <<"z","i","p">>,                     optional |-> TRUE]]

FieldNames == DOMAIN FIELDS

\* st.selectbox(options=..., index=...) default value
selectbox_default(cs, f) ==
    IF FIELDS[f].optional
    THEN (<<NONE>> \o cs)[guess(cs, FIELDS[f].needle) + 1 + 1]
    ELSE cs[guess(cs, FIELDS[f].needle) + 1]

(***************************************************************************)
(* Idle values: what a part of the state holds while another part runs     *)
(***************************************************************************)
NoFile == [ext |-> "", tables |-> <<>>]
NoMap  == [desc |-> FALSE, type |-> FALSE, status |-> FALSE, contr |-> FALSE]
NoRange == [start |-> NaT, end |-> NaT]
NoCfg  == [max_months |-> DEFAULT_MAX_MONTHS, pick_status |-> {}, exclude_roof |-> TRUE]

ScriptIdle ==
    /\ uploaded = NoFile /\ county = COUNTY_OPTIONS[1] /\ df = <<>>
    /\ colmap = NoMap /\ work = <<>> /\ cfg = NoCfg /\ leads = <<>>
    /\ range = NoRange /\ top_con = <<>> /\ top_view = <<>>
    /\ failed = {} /\ shown = {}
MonthsIdle == k = 0 /\ which = "unset" /\ expd = NaT /\ mr = NaN
RoofIdle ==
    /\ cellDesc = EmptyCell /\ cellType = EmptyCell
    /\ roofMap = [desc |-> FALSE, type |-> FALSE] /\ flag = FALSE
GuessIdle == cols = <<>> /\ sugg = <<>>

(***************************************************************************)
(* The calendar, as pandas' DateOffset(months=k) and Timedelta(days=1)     *)
(* define "k calendar months after" and "one day before".                  *)
(***************************************************************************)
IsLeap(y) == (y % 4 = 0 /\ y % 100 # 0) \/ y % 400 = 0

DaysInMonth(y, m) ==
    IF m = 2 THEN (IF IsLeap(y) THEN 29 ELSE 28)
    ELSE IF m \in {4, 6, 9, 11} THEN 30 ELSE 31

Days(y) == {Ts(y, m, d) : m \in 1..12, d \in 1..31} \cap
           {t \in [nat : {FALSE}, y : {y}, m : 1..12, d : 1..31] : t.d <= DaysInMonth(y, t.m)}

\* months since year 0 of a date, and back
MonthIndex(t) == t.y * 12 + (t.m - 1)
TargetYear(t, n)  == (MonthIndex(t) + n) \div 12
TargetMonth(t, n) == ((MonthIndex(t) + n) % 12) + 1
Clamped(t, n) == t.d > DaysInMonth(TargetYear(t, n), TargetMonth(t, n))

AddMonths(t, n) ==
    LET y == TargetYear(t, n)
        m == TargetMonth(t, n)
        L == DaysInMonth(y, m)
    IN  Ts(y, m, IF t.d > L THEN L ELSE t.d)

PrevDay(t) ==
    IF t.d > 1 THEN Ts(t.y, t.m, t.d - 1)
    ELSE IF t.m > 1 THEN Ts(t.y, t.m - 1, DaysInMonth(t.y, t.m - 1))
    ELSE Ts(t.y - 1, 12, 31)

(***************************************************************************)
(* Months driver: months_remaining on the date k months after today and on *)
(* the day before it.                                                      *)
(***************************************************************************)
InitMonths ==
    /\ folder = "none" /\ pc = "pick"
    /\ today \in Days(TodayYear)
    /\ k \in (0 - MaxK)..MaxK
    /\ which = "unset" /\ expd = NaT /\ mr = NaN
    /\ ScriptIdle /\ RoofIdle /\ GuessIdle

PickExpiry ==
    /\ pc = "pick"
    /\ \E w \in {"at", "before"} :
          /\ which' = w
          /\ expd' = IF w = "at" THEN AddMonths(today, k)
                                ELSE PrevDay(AddMonths(today, k))
    /\ pc' = "compute"
    /\ UNCHANGED <<folder, today, k, mr, scriptVars, roofVars, guessVars>>

ComputeMonths ==
    /\ pc = "compute"
    /\ mr' = months_remaining(expd, today)
    /\ pc' = "computed"
    /\ UNCHANGED <<folder, today, k, which, expd, scriptVars, roofVars, guessVars>>

NextMonths == PickExpiry \/ ComputeMonths

SpecMonths == InitMonths /\ [][NextMonths]_vars

\* C2 as stated: k at the boundary and k-1 the day before, for every today
\* and every k, clamped month ends included.
MonthsBoundaryAsStated ==
    pc = "computed" =>
        /\ (which = "at" => mr = Num(k))
        /\ (which = "before" => mr = Num(k - 1))

\* C2 amended: months_remaining is k at the date k calendar months after
\* today when today's day-of-month exists in the target month, k-1 when it
\* does not (the date is the target month's last day), and k-1 on the day
\* before that date in every case.
MonthsBoundary ==
    pc = "computed" =>
        /\ (which = "at" /\ ~Clamped(today, k) => mr = Num(k))
        /\ (which = "at" /\ Clamped(today, k) => mr = Num(k - 1))
        /\ (which = "before" => mr = Num(k - 1))

\* a boundary date in a later year, today's day present in the target month
MonthsBoundaryWitness ==
    /\ pc = "computed" /\ which = "at" /\ ~Clamped(today, k)
    /\ expd.y > today.y /\ expd.d = today.d /\ today.d > 28 /\ mr = Num(k)

(***************************************************************************)
(* Roofing driver: a row's Description cell is typed character by          *)
(* character and the row's _is_roofing is recomputed.                      *)
(***************************************************************************)
RoofAlphabet == {"r", "o", "f", "O", " "}

RoofTypeCells == {EmptyCell, TextCell(<<"R","e","R","o","o","f">>), TextCell(<<"f","o","o","r">>)}

InitRoof ==
    /\ folder = "none" /\ pc = "dirty"
    /\ today = Ts(TodayYear, 1, 1)
    /\ cellDesc \in {EmptyCell, TextCell(<<>>)}
    /\ cellType \in RoofTypeCells
    /\ roofMap \in [desc : BOOLEAN, type : BOOLEAN]
    /\ flag = FALSE
    /\ ScriptIdle /\ MonthsIdle /\ GuessIdle

TypeChar ==
    /\ pc = "clean"
    /\ ~cellDesc.nan /\ Len(cellDesc.s) < MaxLen
    /\ \E c \in RoofAlphabet : cellDesc' = TextCell(Append(cellDesc.s, c))
    /\ pc' = "dirty"
    /\ UNCHANGED <<folder, today, cellType, roofMap, flag, scriptVars, monthVars, guessVars>>

RecomputeRoofing ==
    /\ pc = "dirty"
    /\ flag' = is_roofing(roofMap.desc, roofMap.type, cellDesc, cellType)
    /\ pc' = "clean"
    /\ UNCHANGED <<folder, today, cellDesc, cellType, roofMap, scriptVars, monthVars, guessVars>>

NextRoof == TypeChar \/ RecomputeRoofing

SpecRoof == InitRoof /\ [][NextRoof]_vars

\* keyword kw occurs in text s at some position, compared letter by letter
\* without regard to case
OccursIgnoringCase(kw, s) ==
    \E p \in 0..(Len(s) - Len(kw)) :
        \A j \in 1..Len(kw) : LowerChar(s[p + j]) = LowerChar(kw[j])

\* a mapped field whose cell is present and holds a keyword
FieldHasKeyword(mapped, cell) ==
    /\ mapped /\ ~cell.nan
    /\ \E i \in 1..Len(ROOF_KEYWORDS) : OccursIgnoringCase(ROOF_KEYWORDS[i], cell.s)

\* C4: the roofing flag is true iff a keyword of ROOF_KEYWORDS occurs,
\* ignoring case, in the row's cell of a mapped roofing field (Description,
\* Permit Type); an unmapped field or a missing cell contributes false.
RoofingFlagIff ==
    pc = "clean" =>
        (flag <=> (\/ FieldHasKeyword(roofMap.desc, cellDesc)
                   \/ FieldHasKeyword(roofMap.type, cellType)))

\* a mixed-case keyword inside a longer Description is flagged while the
\* Permit Type holding a keyword is unmapped
RoofingFlagWitness ==
    /\ pc = "clean" /\ flag /\ roofMap.desc /\ ~roofMap.type
    /\ ~cellDesc.nan /\ Len(cellDesc.s) = 5
    /\ cellDesc.s # lower(cellDesc.s)

(***************************************************************************)
(* Guess driver: the nine selectboxes' defaults for a header list.         *)
(***************************************************************************)
HeaderPool ==
    { <<"I","s","s","u","e","d">>,
      <<"E","X","P"," ","T","y","p","e">>,
      <<"D","e","s","c">>,
      <<"P","e","r","m","i","t">>,
      <<"R","e","i","s","s","u","e">> }

COUNTY_COL == <<"C","o","u","n","t","y">>

FieldOrder == <<"issue", "exp", "desc", "type", "status", "contract", "address", "city", "zip">>

SeqsUpTo(S, n) == UNION {[1..m -> S] : m \in 0..n}

\* df.columns after df["County"] = county: the source headers, then County
InitGuess ==
    /\ folder = "none" /\ pc = "guess"
    /\ today = Ts(TodayYear, 1, 1)
    /\ \E hs \in SeqsUpTo(HeaderPool, MaxCols) : cols = hs \o <<COUNTY_COL>>
    /\ sugg = <<>>
    /\ ScriptIdle /\ MonthsIdle /\ RoofIdle

SuggestNext ==
    /\ pc = "guess"
    /\ Len(sugg) < Len(FieldOrder)
    /\ sugg' = Append(sugg, selectbox_default(cols, FieldOrder[Len(sugg) + 1]))
    /\ UNCHANGED <<folder, pc, today, cols, scriptVars, monthVars, roofVars>>

MappingShown ==
    /\ pc = "guess"
    /\ Len(sugg) = Len(FieldOrder)
    /\ pc' = "mapped"
    /\ UNCHANGED <<folder, today, cols, sugg, scriptVars, monthVars, roofVars>>

NextGuess == SuggestNext \/ MappingShown

SpecGuess == InitGuess /\ [][NextGuess]_vars

\* C6: each field's suggestion is the first header, in header order, whose
\* lowercased text contains the field's keyword, and "(none)" (no source
\* column) when no header contains it.
SuggestionFirstMatchOrNone ==
    \A i \in 1..Len(sugg) :
        LET needle == FIELDS[FieldOrder[i]].needle
            hits   == {j \in 1..Len(cols) : In(needle, lower(cols[j]))}
        IN  /\ (hits # {} => sugg[i] = cols[Least(hits)])
            /\ (hits = {} => sugg[i] = NONE)

(***************************************************************************)
(* The script: uploaded files                                              *)
(*                                                                         *)
(* A row holds the cells of the columns the script reads.  contr is the    *)
(* contractor's name as its rank in name order (0: empty cell); County is  *)
(* the file's own County column ("" when the file has none).  A file is an *)
(* extension and the tables found in it; a table is its header line        *)
(* ("none": no line at all, "blank": all header cells empty, "named") and  *)
(* its data rows.                                                          *)
(***************************************************************************)
Row(e, i, st, d, ty, c, cty) ==
    [exp |-> e, issue |-> i, status |-> st, desc |-> d, ptype |-> ty,
     contr |-> c, County |-> cty]

StatusCell(name) == [nan |-> FALSE, s |-> name]
status_str(c) == IF c.nan THEN "nan" ELSE c.s

TodayScript == Ts(TodayYear, 1, 31)
CellOf(t)   == DateCell(t.y, t.m, t.d)
NearCell    == CellOf(AddMonths(TodayScript, 2))
FarCell     == CellOf(AddMonths(TodayScript, 7))
IssueNew    == CellOf(Ts(TodayYear, 1, 20))
IssueOld    == CellOf(Ts(TodayYear - 1, 12, 5))
RoofDesc    == TextCell(<<"R","e","-","R","o","o","f">>)
PlainDesc   == TextCell(<<"d","e","c","k">>)
PlainType   == TextCell(<<"B","l","d","g">>)

LeadPool ==
    {Row(e, IssueNew, StatusCell(st), d, PlainType, 1, "") :
        e \in {BadDateCell, NearCell, FarCell}, st \in {"Issued", "Closed"},
        d \in {RoofDesc, PlainDesc}}

GeoPool ==
    {Row(e, IssueNew, StatusCell("Issued"), PlainDesc, PlainType, 1, cty) :
        e \in {BadDateCell, NearCell}, cty \in {"Placer", "Yuba"}}

TopPool ==
    {Row(NearCell, i, StatusCell("Issued"), d, PlainType, c, "") :
        i \in {IssueNew, IssueOld}, d \in {RoofDesc, PlainDesc}, c \in 0..2}

\* a long report: n roofing rows, the first rep of them by the contractor
\* last in name order, the others by one contractor each, names descending
BigTable(n, rep) ==
    [i \in 1..n |->
        Row(NearCell, IssueNew, StatusCell("Issued"), RoofDesc, PlainType,
            IF i <= rep THEN NContr ELSE NContr + 1 - i, "")]

Pool(f) == IF f = "geo" THEN GeoPool ELSE IF f = "top" THEN TopPool ELSE LeadPool

Table(rows) == [hdr |-> "named", rows |-> rows]

PdfTables(f) ==
    {[hdr |-> "none", rows |-> <<>>]} \cup
    {[hdr |-> h, rows |-> rs] :
        h \in {"blank", "named"},
        rs \in SeqsUpTo({r \in Pool(f) : r.exp = NearCell /\ r.contr = 1 /\ r.desc = PlainDesc}, 1)}

Files(f) ==
    {[ext |-> "csv", tables |-> <<Table(rs)>>] : rs \in SeqsUpTo(Pool(f), MaxRows)}
    \cup {[ext |-> "xlsx", tables |-> <<Table(rs)>>] : rs \in SeqsUpTo(Pool(f), 1)}
    \cup {[ext |-> "pdf", tables |-> ts] : ts \in SeqsUpTo(PdfTables(f), MaxTables)}
    \cup {[ext |-> "txt", tables |-> <<>>]}
    \cup (IF f = "top"
          THEN {[ext |-> "csv", tables |-> <<Table(BigTable(n, rep))>>] :
                    n \in {NContr - 1, NContr}, rep \in {1, 2}}
          ELSE {})

(***************************************************************************)
(* read_any (lines 27-53) and the county tag (line 56)                     *)
(***************************************************************************)
table_len(t) == IF t.hdr = "none" THEN 0 ELSE 1 + Len(t.rows)

\* the tables of a PDF that become frames
is_frame(t) == ~(table_len(t) < 2) /\ t.hdr = "named"

RECURSIVE concat_frames(_)
concat_frames(ts) ==
    IF ts = <<>> THEN <<>>
    ELSE (IF is_frame(Head(ts)) THEN Head(ts).rows ELSE <<>>) \o concat_frames(Tail(ts))

has_frames(ts) == \E i \in 1..Len(ts) : is_frame(ts[i])

\* [err |-> "" and the rows] or [err |-> the st.error shown before st.stop()]
read_any_lenient(f) ==
    IF f.ext \in {"csv", "xlsx"} THEN [err |-> "", rows |-> f.tables[1].rows]
    ELSE IF f.ext = "pdf" THEN [err |-> "", rows |-> concat_frames(f.tables)]
    ELSE [err |-> "", rows |-> <<>>]

read_any(f) ==
    IF f.ext \in {"csv", "xlsx"} THEN [err |-> "", rows |-> f.tables[1].rows]
    ELSE IF f.ext = "pdf"
         THEN IF ~has_frames(f.tables)
              THEN [err |-> "No tables found in the PDF", rows |-> <<>>]
              ELSE [err |-> "", rows |-> concat_frames(f.tables)]
    ELSE [err |-> "Unsupported file type", rows |-> <<>>]

\* df["County"] = county, kept only where the file has no County of its own
tag_county_keep(rows, c) ==
    [i \in 1..Len(rows) |->
        IF rows[i].County = "" THEN [rows[i] EXCEPT !.County = c] ELSE rows[i]]

\* df["County"] = county
tag_county(rows, c) == [i \in 1..Len(rows) |-> [rows[i] EXCEPT !.County = c]]

(***************************************************************************)
(* Helper columns (lines 80-101): work = df.copy() plus the derived        *)
(* columns; idx is the row's index label.                                  *)
(***************************************************************************)
work_of(rows, cm, tdy) ==
    [i \in 1..Len(rows) |->
        [idx |-> i, row |-> rows[i],
         issue_dt |-> to_dt(rows[i].issue),
         exp_dt |-> to_dt(rows[i].exp),
         months_remaining |-> months_remaining(to_dt(rows[i].exp), tdy),
         is_roofing |-> is_roofing(cm.desc, cm.type, rows[i].desc, rows[i].ptype)]]

(***************************************************************************)
(* Filters (lines 105-121)                                                 *)
(***************************************************************************)
\* sorted(work[col_status].dropna().astype(str).unique()), as a set
status_vals(w, cm) ==
    IF cm.status THEN {w[i].row.status.s : i \in {j \in 1..Len(w) : ~w[j].row.status.nan}}
    ELSE {}

keep_date(r, c)   == NLe(r.months_remaining, Num(c.max_months))
keep_status(r, c) == c.pick_status # {} => status_str(r.row.status) \in c.pick_status
keep_roof(r, c)   == c.exclude_roof => ~r.is_roofing

\* the roofing step as mask |= ~_is_roofing
mask_or(r, c) ==
    \/ (keep_date(r, c) /\ keep_status(r, c))
    \/ (c.exclude_roof /\ ~r.is_roofing)

mask(r, c) == keep_date(r, c) /\ keep_status(r, c) /\ keep_roof(r, c)

RECURSIVE reverse(_)
reverse(q) == IF q = <<>> THEN <<>> ELSE Append(reverse(Tail(q)), Head(q))

\* selecting the masked rows most recent first
loc_reversed(w, c) == reverse(SelectSeq(w, LAMBDA r : mask(r, c)))

\* work.loc[mask]
loc(w, c) == SelectSeq(w, LAMBDA r : mask(r, c))

(***************************************************************************)
(* Roofing summary (lines 139-166)                                         *)
(***************************************************************************)
DateLe(a, b) ==
    /\ ~a.nat /\ ~b.nat
    /\ \/ a.y < b.y
       \/ (a.y = b.y /\ a.m < b.m)
       \/ (a.y = b.y /\ a.m = b.m /\ a.d <= b.d)

IssueDates(w) == {w[i].issue_dt : i \in {j \in 1..Len(w) : ~w[j].issue_dt.nat}}

min_d(w, tdy) ==
    IF IssueDates(w) = {} THEN tdy
    ELSE CHOOSE a \in IssueDates(w) : \A b \in IssueDates(w) : DateLe(a, b)
max_d(w, tdy) ==
    IF IssueDates(w) = {} THEN tdy
    ELSE CHOOSE a \in IssueDates(w) : \A b \in IssueDates(w) : DateLe(b, a)

\* value=(max(min_d, max_d.replace(day=1)), max_d)
default_range(w, tdy) ==
    LET lo    == min_d(w, tdy)
        hi    == max_d(w, tdy)
        first == Ts(hi.y, hi.m, 1)
    IN  [start |-> IF DateLe(lo, first) THEN first ELSE lo, end |-> hi]

in_range(w, rg) ==
    SelectSeq(w, LAMBDA r : DateLe(rg.start, r.issue_dt) /\ DateLe(r.issue_dt, rg.end))

roof_rows(w, rg) == SelectSeq(in_range(w, rg), LAMBDA r : r.is_roofing)

\* groupby(col_contr, dropna=False).size(): one entry per name, in name
\* order, the empty name last
GroupPos(c) == IF c = 0 THEN NContr + 1 ELSE c

group_sizes(rf) ==
    {[contr |-> c, Count |-> Cardinality({i \in 1..Len(rf) : rf[i].row.contr = c})] :
        c \in {rf[i].row.contr : i \in 1..Len(rf)}}

\* sort_values sorts with kind="quicksort", which is not stable: entries of
\* equal Count come out in an order the sort does not fix.  tie is one such
\* order: name order rotated to start after position tie.p, forwards or
\* backwards (every order of up to three names is one of these).
TieRank(tie, c) ==
    LET r == (GroupPos(c) - tie.p) % (NContr + 2)
    IN  IF tie.up THEN r ELSE 0 - r

RECURSIVE sorted_by(_, _, _)
sorted_by(S, tie, desc) ==
    IF S = {} THEN <<>>
    ELSE LET x == CHOOSE a \in S : \A b \in S \ {a} :
                      \/ (IF desc THEN a.Count > b.Count ELSE a.Count < b.Count)
                      \/ (a.Count = b.Count /\ TieRank(tie, a.contr) < TieRank(tie, b.contr))
         IN  <<x>> \o sorted_by(S \ {x}, tie, desc)

\* sort_values(ascending=True)
sort_values_ascending(S, tie) == sorted_by(S, tie, FALSE)

\* sort_values(ascending=False)
sort_values(S, tie) == sorted_by(S, tie, TRUE)

Ties(rf) ==
    [p : {GroupPos(rf[i].row.contr) : i \in 1..Len(rf)} \cup {0}, up : BOOLEAN]

\* the tables top_con can be
top_con_of(rf) == {sort_values(group_sizes(rf), tie) : tie \in Ties(rf)}

\* top_con.head(20)
head(t, n) == SubSeq(t, 1, IF Len(t) < n THEN Len(t) ELSE n)

(***************************************************************************)
(* Downloads (lines 175-243)                                               *)
(***************************************************************************)
\* the Excel block without its try/except: the exception ends the run
download_section_raising(bad) ==
    {"csv"} \cup
    (IF "xlsx" \in bad THEN {}
     ELSE {"xlsx"} \cup (IF "pdf" \in bad THEN {"info: pdf"} ELSE {"pdf"}))

download_section(bad) ==
    {"csv"}
    \cup (IF "xlsx" \in bad THEN {"info: xlsx"} ELSE {"xlsx"})
    \cup (IF "pdf" \in bad THEN {"info: pdf"} ELSE {"pdf"})

(***************************************************************************)
(* The user's choices in a run, per folder of reports                      *)
(***************************************************************************)
AllMapped == [desc |-> TRUE, type |-> TRUE, status |-> TRUE, contr |-> TRUE]

MapChoices(f) ==
    IF f = "leads" THEN {AllMapped, [AllMapped EXCEPT !.desc = FALSE],
                         [AllMapped EXCEPT !.status = FALSE]}
    ELSE IF f = "top" THEN {AllMapped, [AllMapped EXCEPT !.contr = FALSE]}
    ELSE {AllMapped}

\* default=[s for s in DEFAULT_STATUSES if s in status_vals]
default_pick(sv) == {DEFAULT_STATUSES[i] : i \in 1..Len(DEFAULT_STATUSES)} \cap sv

CfgChoices(f, sv) ==
    IF f = "leads"
    THEN [max_months : {0, DEFAULT_MAX_MONTHS, MAX_MONTHS_LIMIT},
          pick_status : SUBSET sv, exclude_roof : BOOLEAN]
    ELSE {[max_months |-> DEFAULT_MAX_MONTHS, pick_status |-> default_pick(sv),
           exclude_roof |-> (f = "geo")]}

CountyChoices(f) ==
    IF f = "geo" THEN {COUNTY_OPTIONS[1], COUNTY_OPTIONS[4]} ELSE {COUNTY_OPTIONS[1]}

RangeChoices(f, w, tdy) ==
    {default_range(w, tdy)} \cup
    (IF f = "top" THEN {[start |-> min_d(w, tdy), end |-> max_d(w, tdy)]} ELSE {})

FailChoices(f) == IF f = "leads" THEN SUBSET {"xlsx", "pdf"} ELSE {{}}

(***************************************************************************)
(* The script run                                                          *)
(***************************************************************************)
InitScript(f) ==
    /\ folder = f /\ pc = "idle" /\ today = TodayScript
    /\ ScriptIdle /\ MonthsIdle /\ RoofIdle /\ GuessIdle

\* lines 19-24: a file is supplied and the script runs from the top
Upload ==
    /\ pc = "idle"
    /\ \E f \in Files(folder), c \in CountyChoices(folder) :
          /\ uploaded' = f
          /\ county' = c
    /\ pc' = "read"
    /\ UNCHANGED <<folder, today, df, colmap, work, cfg, leads, range, top_con,
                   top_view, failed, shown, monthVars, roofVars, guessVars>>

\* lines 19-24: the file is removed from the uploader; the rerun clears the
\* page and stops at "Upload a file to begin."
RemoveFile ==
    /\ pc \in {"stopped", "done"}
    /\ uploaded' = NoFile /\ county' = COUNTY_OPTIONS[1]
    /\ df' = <<>> /\ colmap' = NoMap /\ work' = <<>> /\ cfg' = NoCfg
    /\ leads' = <<>> /\ range' = NoRange /\ top_con' = <<>> /\ top_view' = <<>>
    /\ failed' = {} /\ shown' = {}
    /\ pc' = "idle"
    /\ UNCHANGED <<folder, today, monthVars, roofVars, guessVars>>

\* lines 55-56
ReadAny ==
    /\ pc = "read"
    /\ LET r == read_any(uploaded)
       IN  IF r.err # ""
           THEN /\ shown' = {r.err}
                /\ pc' = "stopped"
                /\ df' = df
           ELSE /\ df' = tag_county(r.rows, county)
                /\ pc' = "map"
                /\ shown' = shown
    /\ UNCHANGED <<folder, today, uploaded, county, colmap, work, cfg, leads, range,
                   top_con, top_view, failed, monthVars, roofVars, guessVars>>

\* lines 59-101
MapColumns ==
    /\ pc = "map"
    /\ \E cm \in MapChoices(folder) :
          /\ colmap' = cm
          /\ work' = work_of(df, cm, today)
    /\ shown' = shown \cup {"mapping"}
    /\ pc' = "filters"
    /\ UNCHANGED <<folder, today, uploaded, county, df, cfg, leads, range, top_con,
                   top_view, failed, monthVars, roofVars, guessVars>>

\* lines 104-132
Filters ==
    /\ pc = "filters"
    /\ \E c \in CfgChoices(folder, status_vals(work, colmap)) :
          /\ cfg' = c
          /\ leads' = loc(work, c)
    /\ shown' = shown \cup {"leads"}
    /\ pc' = "summary"
    /\ UNCHANGED <<folder, today, uploaded, county, df, colmap, work, range, top_con,
                   top_view, failed, monthVars, roofVars, guessVars>>

\* lines 135-170
Summary ==
    /\ pc = "summary"
    /\ \E rg \in RangeChoices(folder, work, today) :
          /\ range' = rg
          /\ IF colmap.contr
             THEN /\ top_con' \in top_con_of(roof_rows(work, rg))
                  /\ top_view' = head(top_con', TOP_N)
                  /\ shown' = shown \cup {"summary", "top contractors"}
             ELSE /\ top_con' = <<>> /\ top_view' = <<>>
                  /\ shown' = shown \cup {"summary"}
    /\ pc' = "download"
    /\ UNCHANGED <<folder, today, uploaded, county, df, colmap, work, cfg, leads,
                   failed, monthVars, roofVars, guessVars>>

\* lines 173-243
Downloads ==
    /\ pc = "download"
    /\ \E bad \in FailChoices(folder) :
          /\ failed' = bad
          /\ shown' = shown \cup download_section(bad)
    /\ pc' = "done"
    /\ UNCHANGED <<folder, today, uploaded, county, df, colmap, work, cfg, leads,
                   range, top_con, top_view, monthVars, roofVars, guessVars>>

Next == Upload \/ RemoveFile \/ ReadAny \/ MapColumns \/ Filters \/ Summary \/ Downloads

Init    == InitScript("leads")
InitGeo == InitScript("geo")
InitTop == InitScript("top")

Spec    == Init /\ [][Next]_vars
SpecGeo == InitGeo /\ [][Next]_vars
SpecTop == InitTop /\ [][Next]_vars

Filtered == pc \in {"summary", "download", "done"}
LeadIdx  == {leads[j].idx : j \in 1..Len(leads)}

(***************************************************************************)
(* Claims about the script                                                 *)
(***************************************************************************)
\* C1: the leads are a sub-sequence of the working table: every lead is the
\* row of the input that carries its index label, no row appears twice,
\* and the leads keep the input's order.
LeadsSubsequence ==
    Filtered =>
        /\ \A j \in 1..Len(leads) :
              /\ leads[j].idx \in 1..Len(work)
              /\ leads[j] = work[leads[j].idx]
              /\ leads[j].row = df[leads[j].idx]
        /\ \A a, b \in 1..Len(leads) : a < b => leads[a].idx < leads[b].idx

\* two different input rows both kept
LeadsSubsequenceWitness ==
    /\ pc = "done" /\ Len(leads) >= 2 /\ Len(work) = Len(leads)
    /\ leads[1].row # leads[2].row

\* C3: a row whose expiration cell does not parse has a missing _exp_dt and
\* a missing _months_remaining and is in no leads table, whatever the
\* threshold; the rows after it are still processed.
UnparseableExcluded ==
    /\ pc \in {"filters", "summary", "download", "done"} =>
          /\ Len(work) = Len(df)
          /\ \A i \in 1..Len(work) :
                work[i].row.exp.t # "date" =>
                    work[i].exp_dt = NaT /\ work[i].months_remaining = NaN
    /\ Filtered =>
          \A i \in 1..Len(work) : work[i].row.exp.t # "date" => i \notin LeadIdx

\* at the largest threshold an unparseable row is dropped and the row after
\* it is kept
UnparseableExcludedWitness ==
    /\ pc = "done" /\ cfg.max_months = MAX_MONTHS_LIMIT
    /\ Len(work) >= 2 /\ work[1].row.exp = BadDateCell
    /\ LeadIdx = {2}

\* the three filters applied one after the other to the table, in an order
KeepBy(name, r, c) ==
    IF name = "date" THEN keep_date(r, c)
    ELSE IF name = "status" THEN keep_status(r, c)
    ELSE keep_roof(r, c)

RECURSIVE ApplyInOrder(_, _, _)
ApplyInOrder(order, rows, c) ==
    IF order = <<>> THEN rows
    ELSE ApplyInOrder(Tail(order), SelectSeq(rows, LAMBDA r : KeepBy(Head(order), r, c)), c)

FilterOrders ==
    {o \in [1..3 -> {"date", "status", "roof"}] : \A a, b \in 1..3 : a # b => o[a] # o[b]}

\* C7: the leads are the rows that pass every enabled filter, and filtering
\* the table by the filters one at a time gives the same leads in each of
\* the six orders.
FiltersCommute ==
    Filtered =>
        /\ \A o \in FilterOrders : ApplyInOrder(o, work, cfg) = leads
        /\ \A i \in 1..Len(work) :
              i \in LeadIdx <=>
                 /\ keep_date(work[i], cfg)
                 /\ keep_status(work[i], cfg)
                 /\ keep_roof(work[i], cfg)

\* all three filters enabled, leads left, and the row count after the first
\* filter differs between orders
FiltersCommuteWitness ==
    /\ pc = "done" /\ cfg.pick_status # {} /\ cfg.exclude_roof
    /\ Len(leads) >= 1
    /\ Len(ApplyInOrder(<<"date">>, work, cfg)) # Len(ApplyInOrder(<<"roof">>, work, cfg))
    /\ Len(ApplyInOrder(<<"status">>, work, cfg)) # Len(ApplyInOrder(<<"roof">>, work, cfg))

\* a file the ingestion cannot turn into a table: an extension that is not
\* csv, xlsx or pdf, or a PDF none of whose tables has a named header and a
\* data row
FatalFile(f) ==
    \/ f.ext \notin {"csv", "xlsx", "pdf"}
    \/ /\ f.ext = "pdf"
       /\ \A i \in 1..Len(f.tables) :
             f.tables[i].hdr # "named" \/ f.tables[i].rows = <<>>

\* C8: for a file with a fatal ingestion error the run stops at the error:
\* no table, mapping, leads, summary or download exists, the page shows the
\* error only, and the next step can only be the user's new input.
FatalHaltsRun ==
    uploaded # NoFile /\ FatalFile(uploaded) =>
        /\ pc \in {"read", "stopped"}
        /\ df = <<>> /\ colmap = NoMap /\ work = <<>> /\ leads = <<>>
        /\ top_con = <<>> /\ top_view = <<>>
        /\ shown \subseteq {"No tables found in the PDF", "Unsupported file type"}
        /\ (pc = "stopped" => shown # {} /\ ~ENABLED ReadAny /\ ~ENABLED MapColumns
                                /\ ~ENABLED Filters /\ ~ENABLED Summary
                                /\ ~ENABLED Downloads)

\* a PDF with tables, none of them usable, has stopped the run
FatalHaltsRunWitness ==
    /\ pc = "stopped" /\ uploaded.ext = "pdf" /\ Len(uploaded.tables) = 2
    /\ shown = {"No tables found in the PDF"}

Notice == [xlsx |-> "info: xlsx", pdf |-> "info: pdf"]

\* C9: at the end of a run the CSV download is offered (leads empty or
\* not); each of the Excel and PDF downloads is offered iff its backend did
\* not fail, and a failed one is replaced by its notice.
ExportFailuresNonFatal ==
    pc = "done" =>
        /\ "csv" \in shown
        /\ \A b \in {"xlsx", "pdf"} :
              /\ (b \in failed => b \notin shown /\ Notice[b] \in shown)
              /\ (b \notin failed => b \in shown /\ Notice[b] \notin shown)

\* the Excel export failed, the leads are not empty, CSV and PDF are offered
ExportFailuresWitness ==
    /\ pc = "done" /\ failed = {"xlsx"} /\ Len(leads) >= 1
    /\ {"csv", "pdf", "info: xlsx"} \subseteq shown

\* the rows of the uploaded file as read, before the county tag
SourceRows == read_any(uploaded).rows

Summarised == pc \in {"download", "done"} /\ colmap.contr

RoofNow == roof_rows(work, range)

FirstRow(c) == Least({i \in 1..Len(RoofNow) : RoofNow[i].row.contr = c})

\* C10 as stated: descending count, equal counts in first-encountered
\* order, at most 20 shown.
TopContractorsAsStated ==
    Summarised =>
        /\ \A a, b \in 1..Len(top_con) :
              a < b =>
                 \/ top_con[a].Count > top_con[b].Count
                 \/ /\ top_con[a].Count = top_con[b].Count
                    /\ FirstRow(top_con[a].contr) < FirstRow(top_con[b].contr)
        /\ Len(top_view) <= TOP_N

\* C10 amended: the table has one entry per contractor of the roofing rows
\* in the date range, with that contractor's row count, in descending order
\* of count; the order of contractors with equal counts is not the order of
\* first encounter (the grouping is by name and the sort is not stable); the
\* page shows the first 20 entries.
TopContractorsRanked ==
    Summarised =>
        /\ {top_con[a].contr : a \in 1..Len(top_con)}
              = {RoofNow[i].row.contr : i \in 1..Len(RoofNow)}
        /\ \A a, b \in 1..Len(top_con) : a # b => top_con[a].contr # top_con[b].contr
        /\ \A a \in 1..Len(top_con) :
              top_con[a].Count =
                 Cardinality({i \in 1..Len(RoofNow) : RoofNow[i].row.contr = top_con[a].contr})
        /\ \A a, b \in 1..Len(top_con) : a < b => top_con[a].Count >= top_con[b].Count
        /\ Len(top_view) <= TOP_N
        /\ top_view = SubSeq(top_con, 1, Len(top_view))
        /\ (Len(top_con) >= TOP_N => Len(top_view) = TOP_N)
        /\ (Len(top_con) < TOP_N => top_view = top_con)

\* more than 20 contractors, one with two rows first, the rest tied, cut to 20
TopContractorsWitness ==
    /\ Summarised /\ Len(top_con) > TOP_N /\ Len(top_view) = TOP_N
    /\ top_con[1].Count = 2 /\ top_con[2].Count = 1 /\ top_con[3].Count = 1
    /\ Len(RoofNow) < Len(work) + 1

====
